---------------------------- MODULE Spec2Model ----------------------------
(***************************************************************************)
(* Model of src/main.py: the structure builder (extract_structure), the    *)
(* boilerplate detector (_mark_boilerplate_noise) and the chunk assembler  *)
(* (get_embedding_chunks), with the pure helpers they call.                *)
(*                                                                         *)
(* Python strings are sequences of one-character tokens.  ASCII characters *)
(* stand for themselves; the non-ASCII characters the source mentions are  *)
(* written with ASCII token names:                                         *)
(*   dotless_i I_dot g_breve G_breve u_uml U_uml s_ced S_ced o_uml O_uml   *)
(*   c_ced C_ced copyright_sign en_dash em_dash                            *)
(*   comb_breve comb_cedilla comb_diaeresis comb_dot  (combining marks)    *)
(* Python values of unknown type are tagged tuples: <<"none">>,            *)
(* <<"str", s>>, <<"int", n>>, <<"inf">> (float infinity), <<"list", l>>,  *)
(* <<"dict", d>>; a dict is a function from its present keys.              *)
(***************************************************************************)
EXTENDS Integers, Sequences, FiniteSets, TLC

\* ------------------------------------------------------------------------
\* Characters and the str methods the source calls
\* ------------------------------------------------------------------------

UpperLetters ==
    <<"A", "B", "C", "D", "E", "F", "G", "H", "I", "J", "K", "L", "M", "N", "O", "P", "Q",
      "R", "S", "T", "U", "V", "W", "X", "Y", "Z", "G_breve", "U_uml", "S_ced", "O_uml",
      "C_ced">>

LowerLetters ==
    <<"a", "b", "c", "d", "e", "f", "g", "h", "i", "j", "k", "l", "m", "n", "o", "p", "q",
      "r", "s", "t", "u", "v", "w", "x", "y", "z", "g_breve", "u_uml", "s_ced", "o_uml",
      "c_ced">>

Range(s) == {s[i] : i \in DOMAIN s}

DigitChars == {"0", "1", "2", "3", "4", "5", "6", "7", "8", "9"}

SpaceChars == {" ", "\t", "\n"}

AsciiSlugChars ==
    {"a", "b", "c", "d", "e", "f", "g", "h", "i", "j", "k", "l", "m", "n", "o", "p", "q",
     "r", "s", "t", "u", "v", "w", "x", "y", "z", "_"} \cup DigitChars

UpperSet == Range(UpperLetters)

\* \w of the re module (str patterns): letters, digits and the underscore.
WordChars ==
    UpperSet \cup Range(LowerLetters) \cup DigitChars \cup {"_", "dotless_i", "I_dot"}

IndexIn(c, s) == CHOOSE i \in DOMAIN s : s[i] = c

\* The lower-case letter of each upper-case letter
LowerOf == [c \in UpperSet |-> LowerLetters[IndexIn(c, UpperLetters)]]

\* str.lower() of one character; I_dot lowers to "i" followed by a combining dot.
LowerChar(c) ==
    IF c \in UpperSet THEN <<LowerOf[c]>>
    ELSE IF c = "I_dot" THEN <<"i", "comb_dot">>
    ELSE <<c>>

RECURSIVE Lower(_)
Lower(s) == IF s = <<>> THEN <<>> ELSE LowerChar(Head(s)) \o Lower(Tail(s))

\* Case folding of re.IGNORECASE: lower case, with i, I, dotless i and dotted I
\* equivalent (the re module's equivalence class of "i").
FoldChar(c) ==
    IF c \in {"dotless_i", "I_dot"} THEN "i"
    ELSE IF c \in UpperSet THEN LowerOf[c]
    ELSE c

Fold(s) == [i \in DOMAIN s |-> FoldChar(s[i])]

\* s.strip(chars)
StripChars(s, chars) ==
    LET keep == {i \in DOMAIN s : s[i] \notin chars}
    IN  IF keep = {} THEN <<>>
        ELSE LET lo == CHOOSE i \in keep : \A j \in keep : i <= j
                 hi == CHOOSE i \in keep : \A j \in keep : j <= i
             IN  SubSeq(s, lo, hi)

\* s.strip()
Strip(s) == StripChars(s, SpaceChars)

\* s.isdigit()
IsDigitStr(s) == s # <<>> /\ \A i \in DOMAIN s : s[i] \in DigitChars

\* sub in s
Contains(s, sub) ==
    \E i \in 1..(Len(s) - Len(sub) + 1) : SubSeq(s, i, i + Len(sub) - 1) = sub

\* sep.join(parts)
RECURSIVE Join(_, _)
Join(parts, sep) ==
    IF parts = <<>> THEN <<>>
    ELSE IF Len(parts) = 1 THEN parts[1]
    ELSE parts[1] \o sep \o Join(Tail(parts), sep)

\* s.split(): the maximal runs of non-whitespace characters
RECURSIVE Split(_)
Split(s) ==
    LET t == Strip(s)
    IN  IF t = <<>> THEN <<>>
        ELSE LET sp == {i \in DOMAIN t : t[i] \in SpaceChars}
             IN  IF sp = {} THEN <<t>>
                 ELSE LET k == CHOOSE i \in sp : \A j \in sp : i <= j
                      IN  <<SubSeq(t, 1, k - 1)>> \o Split(SubSeq(t, k + 1, Len(t)))

\* The decimal digits of a natural number, str(n) for n >= 0.
RECURSIVE NatStr(_)
NatStr(n) ==
    LET d == <<"0", "1", "2", "3", "4", "5", "6", "7", "8", "9">>[(n % 10) + 1]
    IN  IF n < 10 THEN <<d>> ELSE NatStr(n \div 10) \o <<d>>

\* str(n) of an int
IntStr(n) == IF n < 0 THEN <<"-">> \o NatStr(0 - n) ELSE NatStr(n)

\* The value of a string of decimal digits.
RECURSIVE DigitsValue(_)
DigitsValue(s) ==
    IF s = <<>> THEN 0
    ELSE 10 * DigitsValue(SubSeq(s, 1, Len(s) - 1))
            + (CHOOSE v \in 0..9 : NatStr(v) = <<s[Len(s)]>>)


\* ------------------------------------------------------------------------
\* Python values and dict access
\* ------------------------------------------------------------------------

None == <<"none">>

PyStr(s) == <<"str", s>>

PyInt(n) == <<"int", n>>

PyInf == <<"inf">>

PyList(l) == <<"list", l>>

PyDict(d) == <<"dict", d>>

\* d.get(k) of a dict whose present keys are DOMAIN d
Get(d, k) == IF k \in DOMAIN d THEN d[k] ELSE None

\* bool(v)
Truthy(v) ==
    CASE v[1] = "none" -> FALSE
      [] v[1] = "str" -> v[2] # <<>>
      [] v[1] = "int" -> v[2] # 0
      [] v[1] = "inf" -> TRUE
      [] v[1] = "list" -> v[2] # <<>>
      [] v[1] = "dict" -> DOMAIN v[2] # {}

\* a or b
Or(a, b) == IF Truthy(a) THEN a ELSE b

\* ------------------------------------------------------------------------
\* String literals of the source
\* ------------------------------------------------------------------------

\* CATEGORY_TO_TYPE keys
S_Title == <<"T", "i", "t", "l", "e">>
S_NarrativeText == <<"N", "a", "r", "r", "a", "t", "i", "v", "e", "T", "e", "x", "t">>
S_ListItem == <<"L", "i", "s", "t", "I", "t", "e", "m">>
S_Table == <<"T", "a", "b", "l", "e">>
S_Header == <<"H", "e", "a", "d", "e", "r">>
S_Footer == <<"F", "o", "o", "t", "e", "r">>
\* the sentinel section id
S_basliksiz == <<"b", "a", "s", "l", "i", "k", "s", "i", "z">>
\* str.maketrans arguments of _slug
TrFrom ==
    <<"dotless_i", "I_dot", "g_breve", "G_breve", "u_uml", "U_uml", "s_ced", "S_ced", "o_uml",
    "O_uml", "c_ced", "C_ced", " ">>
TrTo == <<"i", "I", "g", "G", "u", "U", "s", "S", "o", "O", "c", "C", "_">>
\* month names of _DATE_PATTERN
M_ocak == <<"o", "c", "a", "k">>
M_subat == <<"s_ced", "u", "b", "a", "t">>
M_mart == <<"m", "a", "r", "t">>
M_nisan == <<"n", "i", "s", "a", "n">>
M_mayis == <<"m", "a", "y", "dotless_i", "s">>
M_haziran == <<"h", "a", "z", "i", "r", "a", "n">>
M_temmuz == <<"t", "e", "m", "m", "u", "z">>
M_agustos == <<"a", "g_breve", "u", "s", "t", "o", "s">>
M_eylul == <<"e", "y", "l", "u_uml", "l">>
M_ekim == <<"e", "k", "i", "m">>
M_kasim == <<"k", "a", "s", "dotless_i", "m">>
M_aralik == <<"a", "r", "a", "l", "dotless_i", "k">>
M_january == <<"j", "a", "n", "u", "a", "r", "y">>
M_february == <<"f", "e", "b", "r", "u", "a", "r", "y">>
M_march == <<"m", "a", "r", "c", "h">>
M_april == <<"a", "p", "r", "i", "l">>
M_may == <<"m", "a", "y">>
M_june == <<"j", "u", "n", "e">>
M_july == <<"j", "u", "l", "y">>
M_august == <<"a", "u", "g", "u", "s", "t">>
M_september == <<"s", "e", "p", "t", "e", "m", "b", "e", "r">>
M_october == <<"o", "c", "t", "o", "b", "e", "r">>
M_november == <<"n", "o", "v", "e", "m", "b", "e", "r">>
M_december == <<"d", "e", "c", "e", "m", "b", "e", "r">>
\* keywords of _COPYRIGHT_PATTERN
K_copyright == <<"c", "o", "p", "y", "r", "i", "g", "h", "t">>
K_tum_haklari == <<"t", "u_uml", "m", " ", "h", "a", "k", "l", "a", "r", "dotless_i">>
K_all_rights_reserved ==
    <<"a", "l", "l", " ", "r", "i", "g", "h", "t", "s", " ", "r", "e", "s", "e", "r", "v", "e",
    "d">>
K_her_hakki == <<"h", "e", "r", " ", "h", "a", "k", "k", "dotless_i">>
\* literals of _URL_PATTERN
U_http == <<"h", "t", "t", "p">>
U_slashes == <<":", "/", "/">>
U_www == <<"w", "w", "w", ".">>
U_com == <<".", "c", "o", "m">>
U_org == <<".", "o", "r", "g">>
U_net == <<".", "n", "e", "t">>
\* _ICINDEKILER_MARKERS
I_icindekiler == <<"i", "c_ced", "i", "n", "d", "e", "k", "i", "l", "e", "r">>
I_contents == <<"c", "o", "n", "t", "e", "n", "t", "s">>
I_table_of_contents ==
    <<"t", "a", "b", "l", "e", " ", "o", "f", " ", "c", "o", "n", "t", "e", "n", "t", "s">>
I_index == <<"i", "n", "d", "e", "x">>
\* _UI_INSTRUCTION_MARKERS
UI_tiklayin == <<"t", "dotless_i", "k", "l", "a", "y", "dotless_i", "n">>
UI_tiklanir == <<"t", "dotless_i", "k", "l", "a", "n", "dotless_i", "r">>
UI_tiklanacak == <<"t", "dotless_i", "k", "l", "a", "n", "a", "c", "a", "k">>
UI_butona == <<"b", "u", "t", "o", "n", "a">>
UI_butonuna == <<"b", "u", "t", "o", "n", "u", "n", "a">>
UI_menuden == <<"m", "e", "n", "u_uml", "d", "e", "n">>
UI_secin == <<"s", "e", "c_ced", "i", "n">>
UI_girin == <<"g", "i", "r", "i", "n">>
UI_ekran_acilir ==
    <<"e", "k", "r", "a", "n", " ", "a", "c_ced", "dotless_i", "l", "dotless_i", "r">>
UI_acilir == <<"a", "c_ced", "dotless_i", "l", "dotless_i", "r">>
UI_penceresi_acilir ==
    <<"p", "e", "n", "c", "e", "r", "e", "s", "i", " ", "a", "c_ced", "dotless_i", "l",
    "dotless_i", "r">>
UI_goruntulenir == <<"g", "o_uml", "r", "u_uml", "n", "t", "u_uml", "l", "e", "n", "i", "r">>
UI_gorunur == <<"g", "o_uml", "r", "u_uml", "n", "u_uml", "r">>
UI_sayfa_acilir ==
    <<"s", "a", "y", "f", "a", " ", "a", "c_ced", "dotless_i", "l", "dotless_i", "r">>
UI_click == <<"c", "l", "i", "c", "k">>
UI_select == <<"s", "e", "l", "e", "c", "t">>
UI_choose == <<"c", "h", "o", "o", "s", "e">>
UI_enter == <<"e", "n", "t", "e", "r">>
UI_opens == <<"o", "p", "e", "n", "s">>
UI_displayed == <<"d", "i", "s", "p", "l", "a", "y", "e", "d">>
UI_shown == <<"s", "h", "o", "w", "n">>
\* f-string literals of extract_structure
F_page_ == <<"p", "a", "g", "e", "_">>
F__section_ == <<"_", "s", "e", "c", "t", "i", "o", "n", "_">>
F_block_ == <<"b", "l", "o", "c", "k", "_">>

\* ------------------------------------------------------------------------
\* Classifier, slugifier, normalizer
\* ------------------------------------------------------------------------

CATEGORY_TO_TYPE ==
    (S_Title :> "title") @@ (S_NarrativeText :> "paragraph") @@ (S_ListItem :> "list_item")
        @@ (S_Table :> "table") @@ (S_Header :> "header") @@ (S_Footer :> "footer")

\* `category in CATEGORY_TO_TYPE` hashes the category: a list or a dict raises TypeError.
Unhashable(category) == category[1] \in {"list", "dict"}

_block_type(category) ==
    IF category[1] = "str" /\ category[2] \in DOMAIN CATEGORY_TO_TYPE
    THEN CATEGORY_TO_TYPE[category[2]]
    ELSE "other"

TrFromSet == Range(TrFrom)

\* str.maketrans(TrFrom, TrTo)
tr_map == [c \in TrFromSet |-> TrTo[IndexIn(c, TrFrom)]]

\* s.translate(tr_map)
Translate(s) == [i \in DOMAIN s |-> IF s[i] \in TrFromSet THEN tr_map[s[i]] ELSE s[i]]

\* re.sub of every maximal run of characters of `bad` by one underscore
RECURSIVE ReplaceRuns(_, _)
ReplaceRuns(s, bad) ==
    IF s = <<>> THEN <<>>
    ELSE IF Head(s) \notin bad THEN <<Head(s)>> \o ReplaceRuns(Tail(s), bad)
    ELSE IF Len(s) > 1 /\ s[2] \in bad THEN ReplaceRuns(Tail(s), bad)
    ELSE <<"_">> \o ReplaceRuns(Tail(s), bad)

_slug(text) ==
    IF text = <<>> THEN S_basliksiz
    ELSE LET s1 == Lower(Translate(Strip(text)))
             s2 == ReplaceRuns(s1, Range(s1) \ AsciiSlugChars)
             s3 == StripChars(ReplaceRuns(s2, {"_"}), {"_"})
         IN  IF s3 = <<>> THEN S_basliksiz ELSE s3

\* The canonical compositions of a base letter and a combining mark.
NfcCompose ==
    (<<"g", "comb_breve">> :> "g_breve") @@ (<<"G", "comb_breve">> :> "G_breve")
        @@ (<<"u", "comb_diaeresis">> :> "u_uml") @@ (<<"U", "comb_diaeresis">> :> "U_uml")
        @@ (<<"o", "comb_diaeresis">> :> "o_uml") @@ (<<"O", "comb_diaeresis">> :> "O_uml")
        @@ (<<"s", "comb_cedilla">> :> "s_ced") @@ (<<"S", "comb_cedilla">> :> "S_ced")
        @@ (<<"c", "comb_cedilla">> :> "c_ced") @@ (<<"C", "comb_cedilla">> :> "C_ced")
        @@ (<<"I", "comb_dot">> :> "I_dot")

\* unicodedata.normalize("NFC", s), for strings with at most one mark after a base
RECURSIVE Nfc(_)
Nfc(s) ==
    IF Len(s) < 2 THEN s
    ELSE IF <<s[1], s[2]>> \in DOMAIN NfcCompose
         THEN <<NfcCompose[<<s[1], s[2]>>]>> \o Nfc(SubSeq(s, 3, Len(s)))
         ELSE <<s[1]>> \o Nfc(Tail(s))

_normalize_text(text) ==
    IF text = <<>> THEN <<>>
    ELSE Strip(Join(Split(Nfc(text)), <<" ">>))

_hierarchy_level(block_type) ==
    IF block_type = "title" THEN 1
    ELSE IF block_type = "list_item" THEN 2
    ELSE IF block_type \in {"header", "footer"} THEN 4
    ELSE 3

\* ------------------------------------------------------------------------
\* Noise classifier
\* ------------------------------------------------------------------------

Months ==
    {M_ocak, M_subat, M_mart, M_nisan, M_mayis, M_haziran, M_temmuz, M_agustos, M_eylul,
     M_ekim, M_kasim, M_aralik, M_january, M_february, M_march, M_april, M_may, M_june,
     M_july, M_august, M_september, M_october, M_november, M_december}

_ICINDEKILER_MARKERS == {I_icindekiler, I_contents, I_table_of_contents, I_index}

_UI_INSTRUCTION_MARKERS ==
    {UI_tiklayin, UI_tiklanir, UI_tiklanacak, UI_butona, UI_butonuna, UI_menuden, UI_secin,
     UI_girin, UI_ekran_acilir, UI_acilir, UI_penceresi_acilir, UI_goruntulenir, UI_gorunur,
     UI_sayfa_acilir, UI_click, UI_select, UI_choose, UI_enter, UI_opens, UI_displayed,
     UI_shown}

\* t[i .. i+n-1] exists and consists of characters of `chars`
RunAt(t, i, n, chars) == i + n - 1 <= Len(t) /\ \A k \in i..(i + n - 1) : t[k] \in chars

\* t[i .. i+Len(lit)-1] = lit
LitAt(t, i, lit) == i + Len(lit) - 1 <= Len(t) /\ SubSeq(t, i, i + Len(lit) - 1) = lit

\* \b between t[p-1] and t[p]
Boundary(t, p) ==
    ((p - 1) \in DOMAIN t /\ t[p - 1] \in WordChars) # (p \in DOMAIN t /\ t[p] \in WordChars)

\* \d{1,2}[./]\d{1,2}[./]\d{2,4} from i: the positions that can follow the match
DateDmyEnds(t, i) ==
    UNION {UNION {
        {p2 + c : c \in {c \in 2..4 : RunAt(t, p2, c, DigitChars)}} :
          p2 \in {p1 + b + 1 : b \in {b \in 1..2 : /\ RunAt(t, p1, b, DigitChars)
                                                  /\ RunAt(t, p1 + b, 1, {".", "/"})}}} :
          p1 \in {i + a + 1 : a \in {a \in 1..2 : /\ RunAt(t, i, a, DigitChars)
                                                 /\ RunAt(t, i + a, 1, {".", "/"})}}}

\* \d{4}[-/]\d{1,2}[-/]\d{1,2} from i
DateYmdEnds(t, i) ==
    IF ~(RunAt(t, i, 4, DigitChars) /\ RunAt(t, i + 4, 1, {"-", "/"})) THEN {}
    ELSE UNION {
        {p1 + c : c \in {c \in 1..2 : RunAt(t, p1, c, DigitChars)}} :
          p1 \in {i + 5 + b + 1 : b \in {b \in 1..2 : /\ RunAt(t, i + 5, b, DigitChars)
                                                     /\ RunAt(t, i + 5 + b, 1, {"-", "/"})}}}

\* \d{1,2}\s+(month)\s+\d{2,4} from i, case-insensitively
DateNamedEnds(t, i) ==
    LET ft == Fold(t)
    IN  UNION {UNION {UNION {UNION {
            {p2 + w2 + c : c \in {c \in 2..4 : RunAt(t, p2 + w2, c, DigitChars)}} :
              w2 \in {w \in 1..Len(t) : RunAt(t, p2, w, SpaceChars)}} :
              p2 \in {p1 + w1 + Len(m) : m \in {m \in Months : LitAt(ft, p1 + w1, Fold(m))}}} :
              w1 \in {w \in 1..Len(t) : RunAt(t, p1, w, SpaceChars)}} :
              p1 \in {i + a : a \in {a \in 1..2 : RunAt(t, i, a, DigitChars)}}}

\* _DATE_PATTERN.search(t)
DateSearch(t) ==
    \E i \in DOMAIN t :
        /\ Boundary(t, i)
        /\ \E e \in DateDmyEnds(t, i) \cup DateYmdEnds(t, i) \cup DateNamedEnds(t, i) :
              Boundary(t, e)

\* _COPYRIGHT_PATTERN.search(t)
CopyrightSearch(t) ==
    LET ft == Fold(t)
    IN  \/ Contains(ft, <<"copyright_sign">>)
        \/ \E k \in {K_copyright, K_tum_haklari, K_all_rights_reserved, K_her_hakki} :
              Contains(ft, Fold(k))
        \/ \E i \in DOMAIN t, w \in 0..Len(t) :
              /\ t[i] = "copyright_sign"
              /\ RunAt(t, i + 1, w, SpaceChars)
              /\ RunAt(t, i + 1 + w, 4, DigitChars)

\* _URL_PATTERN.search(t)
UrlSearch(t) ==
    LET ft == Fold(t)
    IN  \/ Contains(ft, U_http \o U_slashes)
        \/ Contains(ft, U_http \o <<"s">> \o U_slashes)
        \/ Contains(ft, U_www)
        \/ \E i \in DOMAIN t, d \in {U_com, U_org, U_net} :
              LitAt(ft, i, d) /\ Boundary(t, i + Len(d))

\* _TOC_LINE_PATTERN.match(t): ^\s*\d+[.)]\s*.{1,100}$
TocLineMatch(t) ==
    \E s \in 0..Len(t) :
        /\ RunAt(t, 1, s, SpaceChars)
        /\ \E d \in 1..Len(t) :
              /\ RunAt(t, s + 1, d, DigitChars)
              /\ RunAt(t, s + d + 1, 1, {".", ")"})
              /\ \E w \in 0..Len(t) :
                    /\ RunAt(t, s + d + 2, w, SpaceChars)
                    /\ LET n == Len(t) - (s + d + 1 + w)
                       IN  /\ n >= 1
                           /\ n <= 100
                           /\ \A k \in (s + d + 2 + w)..Len(t) : t[k] # "\n"

_is_noise(block_type, text, section_title) ==
    LET t == Strip(text)
        lower == Lower(t)
    IN  IF block_type \in {"footer", "header"} THEN TRUE
        ELSE IF t = <<>> THEN TRUE
        ELSE IF Len(t) <= 2
                /\ t \in {<<".">>, <<".", ".">>, <<"-">>, <<"en_dash">>, <<"em_dash">>} THEN TRUE
        ELSE IF IsDigitStr(t) THEN TRUE
        ELSE IF DateSearch(t) /\ Len(t) < 80 THEN TRUE
        ELSE IF CopyrightSearch(t) THEN TRUE
        ELSE IF UrlSearch(t)
                /\ Cardinality({i \in DOMAIN t : t[i] \in {" ", ".", ",", ";"}}) < 3 THEN TRUE
        ELSE IF section_title # <<>>
                /\ Lower(Strip(section_title)) \in _ICINDEKILER_MARKERS THEN TRUE
        ELSE IF Contains(lower, I_icindekiler) /\ Len(t) < 150 THEN TRUE
        ELSE IF TocLineMatch(t) /\ Len(t) < 120 THEN TRUE
        ELSE IF Len(t) < 120 /\ \E m \in _UI_INSTRUCTION_MARKERS : Contains(lower, m) THEN TRUE
        ELSE FALSE

\* ------------------------------------------------------------------------
\* Table-of-contents discard rule of the chunk assembler
\* ------------------------------------------------------------------------

_should_discard_toc(block) ==
    IF block.type # "other" THEN FALSE
    ELSE LET t == Strip(block.text)
             lower == Lower(t)
         IN  IF t = <<>> THEN TRUE
             ELSE IF IsDigitStr(t) THEN TRUE
             ELSE IF Contains(lower, I_icindekiler) \/ Contains(lower, I_contents) THEN TRUE
             ELSE IF Contains(t, <<".", ".", ".", ".">>) THEN TRUE
             ELSE FALSE

\* ------------------------------------------------------------------------
\* Field access of extract_structure
\* ------------------------------------------------------------------------

\* el.get("category") or el.get("type") or "", stripped when it is a str
CategoryOf(el) ==
    LET c == Or(Or(Get(el, "category"), Get(el, "type")), PyStr(<<>>))
    IN  IF c[1] = "str" THEN PyStr(Strip(c[2])) ELSE c

\* el.get("text", ""), None replaced by "", any other non-str by str(text)
TextOf(el) ==
    LET v == IF "text" \in DOMAIN el THEN el["text"] ELSE PyStr(<<>>)
    IN  CASE v[1] = "none" -> <<>>
          [] v[1] = "str" -> v[2]
          [] v[1] = "int" -> IntStr(v[2])
          [] v[1] = "inf" -> <<"i", "n", "f">>

\* int(p) raises OverflowError, which the except clause does not catch
PageRaises(el) == Or(Get(el, "page_number"), Get(el, "page"))[1] = "inf"

\* el.get("page_number") or el.get("page"), None replaced by 0, then int(page)
\* with TypeError and ValueError replaced by 0
PageOf(el) ==
    LET p == Or(Get(el, "page_number"), Get(el, "page"))
    IN  CASE p[1] = "none" -> 0
          [] p[1] = "int" -> p[2]
          [] p[1] = "str" -> IF IsDigitStr(Strip(p[2])) THEN DigitsValue(Strip(p[2])) ELSE 0
          [] p[1] \in {"list", "dict"} -> 0

\* float(v) raises: TypeError for None, a list, a dict; ValueError for a str
\* that is no number
FloatRaises(v) ==
    \/ v[1] \in {"none", "list", "dict"}
    \/ v[1] = "str" /\ ~IsDigitStr(Strip(v[2]))

\* float(v) where it does not raise (integral values)
FloatOf(v) == IF v[1] = "str" THEN DigitsValue(Strip(v[2])) ELSE v[2]

\* The value `bbox` of _bbox_from_element
BboxField(el) == Or(Or(Get(el, "bbox"), Get(el, "coordinates")), Get(el, "bounding_box"))

\* The corners (x1, y1, x2, y2) _bbox_from_element reads from a dict
BboxCorners(d) ==
    <<Or(Get(d, "x1"), Get(d, "left")), Or(Get(d, "y1"), Get(d, "top")),
      Or(Get(d, "x2"), Get(d, "right")), Or(Get(d, "y2"), Get(d, "bottom"))>>

\* _bbox_from_element(el) ends in an exception of float()
BboxRaises(el) ==
    LET bbox == BboxField(el)
    IN  \/ /\ bbox[1] = "list"
           /\ Len(bbox[2]) >= 4
           /\ \E k \in 1..4 : FloatRaises(bbox[2][k])
        \/ /\ bbox[1] = "dict"
           /\ None \notin Range(BboxCorners(bbox[2]))
           /\ \E k \in 1..4 : FloatRaises(BboxCorners(bbox[2])[k])

\* _bbox_from_element(el) where it returns: None or the list [x1, y1, x2, y2]
_bbox_from_element(el) ==
    LET bbox == BboxField(el)
    IN  IF bbox = None THEN None
        ELSE IF bbox[1] = "list" /\ Len(bbox[2]) >= 4
             THEN PyList([k \in 1..4 |-> FloatOf(bbox[2][k])])
        ELSE IF bbox[1] = "dict" /\ None \notin Range(BboxCorners(bbox[2]))
             THEN PyList([k \in 1..4 |-> FloatOf(BboxCorners(bbox[2])[k])])
        ELSE None

\* ------------------------------------------------------------------------
\* State
\* ------------------------------------------------------------------------

VARIABLES
    elements,               \* the elements read so far (the argument of extract_structure)
    blocks,                 \* extract_structure: blocks
    current_section_id,     \* extract_structure: current_section_id
    current_section_title,  \* extract_structure: current_section_title
    page_counter,           \* extract_structure: page_counter
    section_block_index,    \* extract_structure: section_block_index
    chunks,                 \* get_embedding_chunks: chunks
    i,                      \* get_embedding_chunks: the cursor i
    pc                      \* "extract", "chunk", "done", or "raised" (an exception left
                            \* extract_structure)

vars ==
    <<elements, blocks, current_section_id, current_section_title, page_counter,
      section_block_index, chunks, i, pc>>

Init ==
    /\ elements = <<>>
    /\ blocks = <<>>
    /\ current_section_id = S_basliksiz
    /\ current_section_title = <<>>
    /\ page_counter = <<>>
    /\ section_block_index = <<>>
    /\ chunks = <<>>
    /\ i = 0
    /\ pc = "extract"

\* ------------------------------------------------------------------------
\* Structure builder
\* ------------------------------------------------------------------------

\* d.get(k, 0) + 1 of a counter dict
Bump(d, k) == IF k \in DOMAIN d THEN d[k] + 1 ELSE 1

\* d[k] = v
Put(d, k, v) == [x \in DOMAIN d \cup {k} |-> IF x = k THEN v ELSE d[x]]

\* f"{n:03d}" for n >= 0
Pad3(n) ==
    LET s == NatStr(n)
    IN  IF Len(s) >= 3 THEN s ELSE [k \in 1..(3 - Len(s)) |-> "0"] \o s

\* Bug variant of SectionAfter: a title renews the section title but not the id
SectionAfterStaleId(block_type, text, section_id, section_title) ==
    IF block_type = "title"
    THEN [id |-> section_id, title |-> Strip(text)]
    ELSE [id |-> section_id, title |-> section_title]

\* The section cursor after an element of type block_type and text `text`
SectionAfter(block_type, text, section_id, section_title) ==
    IF block_type = "title"
    THEN [id |-> _slug(text), title |-> Strip(text)]
    ELSE [id |-> section_id, title |-> section_title]

\* Bug variant of SectionIndexAfter: the counter restarts when the section changes
SectionIndexRestart(index, section_id) ==
    Put(<<>>, section_id, Bump(index, section_id))

\* The per-section counter after one more block of section_id
SectionIndexAfter(index, section_id) == Put(index, section_id, Bump(index, section_id))

\* f"page_{page}_section_{current_section_id}_{idx_in_section:03d}"
ChunkId(page, section_id, idx_in_section) ==
    F_page_ \o IntStr(page) \o F__section_ \o section_id \o <<"_">> \o Pad3(idx_in_section)

\* Bug variant of BlockId: positions counted from 1
BlockIdOneBased(k) == F_block_ \o IntStr(k + 1)

\* f"block_{i}"
BlockId(k) == F_block_ \o IntStr(k)

\* The block appended for the element of index k (0-based)
NewBlock(k, el, section, idx_in_section, block_index_in_page) ==
    LET block_type == _block_type(CategoryOf(el))
        text == TextOf(el)
        page == PageOf(el)
    IN  [block_id |-> BlockId(k),
         type |-> block_type,
         text |-> text,
         page |-> page,
         bbox |-> _bbox_from_element(el),
         section_id |-> IF section.id # <<>> THEN section.id ELSE S_basliksiz,
         section_title |-> section.title,
         hierarchy_level |-> _hierarchy_level(block_type),
         chunk_id |-> ChunkId(page, section.id, idx_in_section),
         block_index_in_page |-> block_index_in_page,
         is_noise |-> _is_noise(block_type, text, section.title),
         normalized_text |-> _normalize_text(text)]

\* One iteration of the loop of extract_structure, on the next element el
ExtractStep(el, max) ==
    /\ pc = "extract"
    /\ Len(elements) < max
    /\ elements' = Append(elements, el)
    /\ IF Unhashable(CategoryOf(el)) \/ PageRaises(el) \/ BboxRaises(el)
       THEN /\ pc' = "raised"
            /\ UNCHANGED <<blocks, current_section_id, current_section_title, page_counter,
                           section_block_index, chunks, i>>
       ELSE LET section == SectionAfter(_block_type(CategoryOf(el)), TextOf(el),
                                        current_section_id, current_section_title)
                index == SectionIndexAfter(section_block_index, section.id)
                in_page == Bump(page_counter, PageOf(el))
            IN  /\ current_section_id' = section.id
                /\ current_section_title' = section.title
                /\ section_block_index' = index
                /\ page_counter' = Put(page_counter, PageOf(el), in_page)
                /\ blocks' = Append(blocks,
                                    NewBlock(Len(elements), el, section, index[section.id],
                                             in_page))
                /\ UNCHANGED <<chunks, i, pc>>

\* ------------------------------------------------------------------------
\* Boilerplate detector
\* ------------------------------------------------------------------------

\* The indices grouped under normalized text nt (texts of length >= 25 only)
TextIndices(bs, nt) == {k \in DOMAIN bs : Len(nt) >= 25 /\ bs[k].normalized_text = nt}

\* Bug variant of _mark_boilerplate_noise: two distinct pages suffice
MarkBoilerplateTwoPages(bs) ==
    [k \in DOMAIN bs |->
        LET indices == TextIndices(bs, bs[k].normalized_text)
            pages == {bs[n].page : n \in indices}
        IN  IF Cardinality(pages) >= 2
            THEN [bs[k] EXCEPT !.is_noise = TRUE]
            ELSE bs[k]]

_mark_boilerplate_noise(bs) ==
    [k \in DOMAIN bs |->
        LET indices == TextIndices(bs, bs[k].normalized_text)
            pages == {bs[n].page : n \in indices}
        IN  IF Cardinality(pages) >= 3
            THEN [bs[k] EXCEPT !.is_noise = TRUE]
            ELSE bs[k]]

\* The end of the loop of extract_structure: the boilerplate pass, and the return
ExtractReturn ==
    /\ pc = "extract"
    /\ blocks' = _mark_boilerplate_noise(blocks)
    /\ pc' = "chunk"
    /\ UNCHANGED <<elements, current_section_id, current_section_title, page_counter,
                   section_block_index, chunks, i>>

\* ------------------------------------------------------------------------
\* Chunk assembler
\* ------------------------------------------------------------------------

content_types == {"paragraph", "list_item", "table"}

\* `b.get("is_noise") or _should_discard_toc(b)`: the block is skipped
Skipped(b) == b.is_noise \/ _should_discard_toc(b)

\* Bug variant of AuthorLike: only the length-under-4 test
AuthorLikeShortOnly(title_text) == Len(title_text) < 4

\* The title is rejected as a short, author-like heading
AuthorLike(title_text) ==
    Len(title_text) < 4 \/ (" " \notin Range(title_text) /\ Len(title_text) < 20)

\* Bug variant of CollectRun: noise and table-of-contents blocks are not skipped
RECURSIVE CollectRunNoSkip(_, _, _, _)
CollectRunNoSkip(bs, j, content_parts, block_ids) ==
    IF j >= Len(bs) \/ bs[j + 1].type = "title"
    THEN [j |-> j, content_parts |-> content_parts, block_ids |-> block_ids]
    ELSE IF bs[j + 1].type \in content_types
         THEN CollectRunNoSkip(bs, j + 1, Append(content_parts, Strip(bs[j + 1].text)),
                               Append(block_ids, bs[j + 1].block_id))
    ELSE CollectRunNoSkip(bs, j + 1, content_parts, block_ids)

\* The inner loop `while j < len(blocks)` from position j (0-based) with the
\* parts and ids collected so far; yields the final j, content_parts, block_ids
RECURSIVE CollectRun(_, _, _, _)
CollectRun(bs, j, content_parts, block_ids) ==
    IF j >= Len(bs) \/ bs[j + 1].type = "title"
    THEN [j |-> j, content_parts |-> content_parts, block_ids |-> block_ids]
    ELSE IF Skipped(bs[j + 1]) THEN CollectRun(bs, j + 1, content_parts, block_ids)
    ELSE IF bs[j + 1].type \in content_types
         THEN CollectRun(bs, j + 1, Append(content_parts, Strip(bs[j + 1].text)),
                         Append(block_ids, bs[j + 1].block_id))
    ELSE CollectRun(bs, j + 1, content_parts, block_ids)

\* The chunk built for anchor block b
NewChunk(title, b, run) ==
    [title |-> title,
     content |-> Join(run.content_parts, <<"\n", "\n">>),
     page |-> b.page,
     section_id |-> b.section_id,
     section_title |-> b.section_title,
     chunk_id |-> b.chunk_id,
     block_ids |-> run.block_ids]

\* Bug variant of TitleBranch: the cursor steps by one instead of jumping to j
TitleBranchNoJump(bs, k, cs) ==
    LET b == bs[k + 1]
        title_text == Strip(b.text)
        run == CollectRun(bs, k + 1, <<>>, <<b.block_id>>)
    IN  IF AuthorLike(title_text) THEN [i |-> k + 1, chunks |-> cs]
        ELSE [i |-> k + 1,
              chunks |-> IF run.content_parts # <<>>
                         THEN Append(cs, NewChunk(title_text, b, run))
                         ELSE cs]

\* The branch of a title block: the cursor and the chunks after it
TitleBranch(bs, k, cs) ==
    LET b == bs[k + 1]
        title_text == Strip(b.text)
        run == CollectRun(bs, k + 1, <<>>, <<b.block_id>>)
    IN  IF AuthorLike(title_text) THEN [i |-> k + 1, chunks |-> cs]
        ELSE [i |-> run.j,
              chunks |-> IF run.content_parts # <<>>
                         THEN Append(cs, NewChunk(title_text, b, run))
                         ELSE cs]

\* Bug variant of ContentBranch: content without a governing title is dropped
ContentBranchDropped(bs, k, cs) == [i |-> k + 1, chunks |-> cs]

\* The branch of a content block outside a title's run: a titleless chunk
ContentBranch(bs, k, cs) ==
    LET b == bs[k + 1]
        run == CollectRun(bs, k + 1, <<Strip(b.text)>>, <<b.block_id>>)
    IN  [i |-> run.j, chunks |-> Append(cs, NewChunk(<<>>, b, run))]

\* One iteration of the outer `while i < len(blocks)` of get_embedding_chunks
OuterStep(bs, k, cs) ==
    LET b == bs[k + 1]
    IN  IF Skipped(b) THEN [i |-> k + 1, chunks |-> cs]
        ELSE IF b.type = "title" THEN TitleBranch(bs, k, cs)
        ELSE IF b.type \in content_types /\ ~Skipped(b) THEN ContentBranch(bs, k, cs)
        ELSE [i |-> k + 1, chunks |-> cs]

ChunkStep ==
    /\ pc = "chunk"
    /\ i < Len(blocks)
    /\ LET step == OuterStep(blocks, i, chunks)
       IN  i' = step.i /\ chunks' = step.chunks
    /\ UNCHANGED <<elements, blocks, current_section_id, current_section_title,
                   page_counter, section_block_index, pc>>

\* The loop condition fails: get_embedding_chunks returns chunks
ChunkReturn ==
    /\ pc = "chunk"
    /\ i >= Len(blocks)
    /\ pc' = "done"
    /\ UNCHANGED <<elements, blocks, current_section_id, current_section_title,
                   page_counter, section_block_index, chunks, i>>

\* ------------------------------------------------------------------------
\* Inputs
\* ------------------------------------------------------------------------

\* An element with the three usual keys
El(category, text, page) ==
    [category |-> PyStr(category), text |-> PyStr(text), page_number |-> PyInt(page)]

S_UncategorizedText == <<"U", "n", "c", "a", "t", "e", "g", "o", "r", "i", "z", "e", "d", "T", "e", "x", "t">>

\* Texts of the input elements
X_giris_bolumu ==
    <<" ", "G", "i", "r", "i", "s_ced", " ", "B", "o_uml", "l", "u_uml", "m", "u_uml", "\n">>
X_giris == <<"G", "i", "r", "i", "s_ced">>
X_12 == <<"1", "2">>
X_paragraf == <<"B", "u", " ", "b", "i", "r", " ", "p", "a", "r", "a", "g", "r", "a", "f", ".">>
X_madde == <<" ", "M", "a", "d", "d", "e", " ", "b", "i", "r", " ">>
X_tarih == <<"1", "2", "/", "0", "5", "/", "2", "0", "2", "3">>
X_contents == <<"c", "o", "n", "t", "e", "n", "t", "s">>
X_serbest == <<"S", "e", "r", "b", "e", "s", "t", " ", "m", "e", "t", "i", "n">>
X_contents_title == <<"C", "o", "n", "t", "e", "n", "t", "s">>
X_gizli25 ==
    <<"B", "u", " ", "b", "e", "l", "g", "e", " ", "g", "i", "z", "l", "i", "d", "i", "r", ",",
    " ", "k", "o", "p", "y", "a", ".">>
X_gizli25ws ==
    <<"B", "u", " ", "b", "e", "l", "g", "e", " ", " ", "g", "i", "z", "l", "i", "d", "i", "r",
    ",", "\n", "k", "o", "p", "y", "a", ".">>
X_abc == <<"a", "b", "c">>
X_gizli24 ==
    <<"B", "u", " ", "b", "e", "l", "g", "e", " ", "g", "i", "z", "l", "i", "d", "i", "r", ",",
    " ", "k", "o", "p", "y", ".">>

\* Longest element list of the section and chunking specification
MaxElements == 3

\* Longest element list of the boilerplate specification
MaxBoilerElements == 3

\* Longest element list of the field-sanitizing specification
MaxFieldElements == 2

Pool ==
    {El(S_Title, X_giris_bolumu, 1), El(S_Title, X_giris, 1), El(S_Title, X_12, 2),
     El(S_NarrativeText, X_paragraf, 1), El(S_ListItem, X_madde, 2),
     El(S_NarrativeText, X_tarih, 1), El(S_UncategorizedText, X_contents, 1),
     El(S_UncategorizedText, X_serbest, 2)}

BoilerPool ==
    {El(S_NarrativeText, X_gizli25, 1), El(S_NarrativeText, X_gizli25, 2),
     El(S_NarrativeText, X_gizli25ws, 3), El(S_Footer, X_gizli25, 3),
     El(S_NarrativeText, X_gizli24, 1), El(S_NarrativeText, X_gizli24, 2),
     El(S_NarrativeText, X_gizli24, 3), El(S_Title, X_contents_title, 1)}

Next ==
    \/ \E el \in Pool : ExtractStep(el, MaxElements)
    \/ ExtractReturn
    \/ ChunkStep
    \/ ChunkReturn

Spec == Init /\ [][Next]_vars

NextBoiler ==
    \/ \E el \in BoilerPool : ExtractStep(el, MaxBoilerElements)
    \/ ExtractReturn
    \/ ChunkStep
    \/ ChunkReturn

SpecBoiler == Init /\ [][NextBoiler]_vars

\* Elements with the alternative keys, bounding boxes and malformed values
Narrative(extra) ==
    [category |-> PyStr(S_NarrativeText), text |-> PyStr(X_paragraf),
     page_number |-> PyInt(1)] @@ extra

FieldPool ==
    {Narrative([bbox |-> PyList(<<PyInt(10), PyInt(20), PyInt(100), PyInt(30)>>)]),
     Narrative([bbox |-> PyDict([x1 |-> PyInt(1), y1 |-> PyInt(2), x2 |-> PyInt(3),
                                 y2 |-> PyInt(4)])]),
     Narrative([bbox |-> PyDict([left |-> PyInt(0), top |-> PyInt(0), right |-> PyInt(10),
                                 bottom |-> PyInt(10)])]),
     Narrative([bbox |-> PyDict([x1 |-> PyInt(0), y1 |-> PyInt(0), x2 |-> PyInt(10),
                                 y2 |-> PyInt(10)])]),
     Narrative([bbox |-> PyDict([x1 |-> PyInt(1), y1 |-> PyInt(2), x2 |-> PyInt(3)])]),
     Narrative([bbox |-> PyList(<<PyInt(10), PyInt(20), PyStr(X_abc), PyInt(30)>>)]),
     Narrative([bbox |-> PyList(<<PyInt(1), PyInt(2)>>)]),
     Narrative([coordinates |-> PyList(<<PyStr(X_12), PyStr(X_12), PyStr(X_12),
                                         PyStr(X_12)>>)]),
     [category |-> PyList(<<PyStr(S_Title)>>), text |-> PyStr(X_giris_bolumu),
      page_number |-> PyInt(1)],
     [type |-> PyStr(<<" ">> \o S_Title \o <<" ">>), text |-> None, page |-> PyStr(X_12)],
     [category |-> PyStr(S_Title), text |-> PyStr(X_giris_bolumu), page_number |-> PyStr(X_abc)],
     [category |-> PyStr(S_NarrativeText), text |-> PyStr(X_paragraf), page_number |-> PyInf],
     [text |-> PyInt(12)]}

NextFields ==
    \/ \E el \in FieldPool : ExtractStep(el, MaxFieldElements)
    \/ ExtractReturn
    \/ ChunkStep
    \/ ChunkReturn

SpecFields == Init /\ [][NextFields]_vars

\* ------------------------------------------------------------------------
\* Properties
\* ------------------------------------------------------------------------

\* The position (1-based) of the block with the given block_id
IndexOfId(id) == CHOOSE k \in DOMAIN blocks : blocks[k].block_id = id

\* The block with the given block_id
BlockOf(id) == blocks[IndexOfId(id)]

\* The position of the last title block at or before position k, 0 if none
LastTitle(k) ==
    LET ts == {t \in 1..k : blocks[t].type = "title"}
    IN  IF ts = {} THEN 0 ELSE CHOOSE t \in ts : \A u \in ts : u <= t

\* A title text the chunk assembler accepts: at least 4 characters, and a space
\* or at least 20 characters
AcceptedTitle(tt) == Len(tt) >= 4 /\ (" " \in Range(tt) \/ Len(tt) >= 20)

\* C1: every block's section_id is slug(text) of the most recent title block at
\* or before it and its section_title is that title's trimmed text; blocks
\* before the first title carry the sentinel "basliksiz" and an empty title.
C1_SectionTracking ==
    \A k \in DOMAIN blocks :
        LET t == LastTitle(k)
        IN  IF t = 0
            THEN blocks[k].section_id = S_basliksiz /\ blocks[k].section_title = <<>>
            ELSE /\ blocks[k].section_id = _slug(blocks[t].text)
                 /\ blocks[k].section_title = Strip(blocks[t].text)

\* A finished run with a block before the first title and a block under a title
\* whose text had to be trimmed.
C1_Witness ==
    /\ pc = "done"
    /\ Len(blocks) >= 3
    /\ blocks[1].type # "title"
    /\ blocks[2].type = "title"
    /\ blocks[3].type # "title"
    /\ blocks[3].section_id # S_basliksiz
    /\ blocks[3].section_title # blocks[2].text

\* A finished run on one Title element followed by one non-noise NarrativeText
TitleParagraphRun ==
    /\ pc = "done"
    /\ Len(blocks) = 2
    /\ blocks[1].type = "title"
    /\ blocks[2].type = "paragraph"
    /\ ~blocks[2].is_noise

C3_NoNoiseInChunks ==
    \A n \in DOMAIN chunks :
        LET ids == chunks[n].block_ids
            titled == BlockOf(ids[1]).type = "title"
            body == IF titled THEN Tail(ids) ELSE ids
        IN  /\ \A m \in DOMAIN ids :
                  ~BlockOf(ids[m]).is_noise /\ ~_should_discard_toc(BlockOf(ids[m]))
            /\ chunks[n].title = IF titled THEN Strip(BlockOf(ids[1]).text) ELSE <<>>
            /\ chunks[n].content
                  = Join([m \in DOMAIN body |-> Strip(BlockOf(body[m]).text)], <<"\n", "\n">>)

\* A finished run with a chunk that passed over a noise or table-of-contents
\* block lying between two of its members.
C3_Witness ==
    /\ pc = "done"
    /\ \E n \in DOMAIN chunks, k \in DOMAIN blocks :
          /\ blocks[k].is_noise \/ _should_discard_toc(blocks[k])
          /\ IndexOfId(chunks[n].block_ids[1]) < k
          /\ k < IndexOfId(chunks[n].block_ids[Len(chunks[n].block_ids)])

\* The pages spanned by the blocks sharing the normalized text of block k
GroupPages(bs, k) ==
    {bs[n].page : n \in {n \in DOMAIN bs : bs[n].normalized_text = bs[k].normalized_text}}

\* C4: the boilerplate pass sets is_noise exactly on the blocks that were noise
\* before or whose normalized text has length >= 25 and spans >= 3 distinct
\* pages; it changes nothing else and never clears a flag.
C4_BoilerplateWidening ==
    [][(pc = "extract" /\ pc' = "chunk") =>
          /\ DOMAIN blocks' = DOMAIN blocks
          /\ \A k \in DOMAIN blocks :
                /\ blocks'[k].is_noise
                      = (\/ blocks[k].is_noise
                         \/ /\ Len(blocks[k].normalized_text) >= 25
                            /\ Cardinality(GroupPages(blocks, k)) >= 3)
                /\ [blocks'[k] EXCEPT !.is_noise = blocks[k].is_noise] = blocks[k]]_vars

\* After the pass, a block is noise that the per-block rules had not flagged.
C4_Witness ==
    /\ pc = "chunk"
    /\ \E k \in DOMAIN blocks :
          /\ blocks[k].is_noise
          /\ ~_is_noise(blocks[k].type, blocks[k].text, blocks[k].section_title)

\* C5: one block per element in input order: as many blocks as elements, the
\* k-th block (0-based) has block_id "block_k" and the k-th element's text and
\* page, also after the boilerplate pass.
C5_OneBlockPerElement ==
    pc # "raised" =>
        /\ Len(blocks) = Len(elements)
        /\ \A k \in DOMAIN blocks :
              /\ blocks[k].block_id
                    = <<"b", "l", "o", "c", "k", "_">>
                        \o <<<<"0", "1", "2", "3", "4", "5", "6", "7", "8", "9">>[k]>>
              /\ elements[k].text = PyStr(blocks[k].text)
              /\ elements[k].page_number = PyInt(blocks[k].page)

\* extract_structure has returned at least three blocks.
C5_Witness == pc \in {"chunk", "done"} /\ Len(blocks) >= 3

\* C6 as stated: extract_structure never ends in an error.
C6_NeverRaises == pc # "raised"

\* C7 as stated: content not collected under a governing title appears in no
\* chunk, so every chunk is anchored at a title block.
C7_Original ==
    \A n \in DOMAIN chunks : BlockOf(chunks[n].block_ids[1]).type = "title"

\* C7 amended: every non-noise paragraph, list_item or table block appears in
\* exactly one chunk; when a title governs it (the nearest title block before it
\* is not noise and has an accepted text) that chunk is the title's chunk,
\* otherwise (no title before it, or a title skipped as noise or rejected as
\* author-like) it is a titleless chunk anchored at a content block after that
\* title.
C7_ContentKept ==
    pc = "done" =>
        \A k \in DOMAIN blocks :
            (blocks[k].type \in {"paragraph", "list_item", "table"} /\ ~blocks[k].is_noise) =>
                LET holders ==
                        {n \in DOMAIN chunks : blocks[k].block_id \in Range(chunks[n].block_ids)}
                    t == LastTitle(k)
                IN  /\ Cardinality(holders) = 1
                    /\ \A n \in holders :
                          IF t > 0 /\ ~blocks[t].is_noise /\ AcceptedTitle(Strip(blocks[t].text))
                          THEN /\ chunks[n].block_ids[1] = blocks[t].block_id
                               /\ chunks[n].title = Strip(blocks[t].text)
                          ELSE /\ chunks[n].title = <<>>
                               /\ BlockOf(chunks[n].block_ids[1]).type
                                     \in {"paragraph", "list_item", "table"}
                               /\ IndexOfId(chunks[n].block_ids[1]) > t

\* A finished run with a titleless chunk anchored right after a title block.
C7_Witness ==
    /\ pc = "done"
    /\ \E n \in DOMAIN chunks :
          /\ chunks[n].title = <<>>
          /\ IndexOfId(chunks[n].block_ids[1]) > 1
          /\ blocks[IndexOfId(chunks[n].block_ids[1]) - 1].type = "title"

\* The chunks are pairwise disjoint, each lists its blocks in strictly
\* increasing sequence order with no title block after its anchor up to its last
\* member, and the chunks are in increasing order of their anchors.
ChunksWellFormed ==
    /\ \A n \in DOMAIN chunks :
          LET ids == chunks[n].block_ids
          IN  /\ \A m \in 1..(Len(ids) - 1) : IndexOfId(ids[m]) < IndexOfId(ids[m + 1])
              /\ \A k \in DOMAIN blocks :
                    (IndexOfId(ids[1]) < k /\ k <= IndexOfId(ids[Len(ids)])) =>
                        blocks[k].type # "title"
    /\ \A n1, n2 \in DOMAIN chunks :
          n1 < n2 =>
              /\ Range(chunks[n1].block_ids) \cap Range(chunks[n2].block_ids) = {}
              /\ IndexOfId(chunks[n1].block_ids[1]) < IndexOfId(chunks[n2].block_ids[1])

\* C8: every iteration of get_embedding_chunks moves the cursor forward and
\* keeps the chunks emitted so far; the chunks never overlap, list their blocks
\* in increasing order, come in increasing anchor order and hold no title block
\* other than their anchor.
C8_ForwardNoOverlap ==
    [][/\ (pc = "chunk" /\ pc' = "chunk") =>
             /\ i' > i
             /\ Len(chunks') >= Len(chunks)
             /\ SubSeq(chunks', 1, Len(chunks)) = chunks
       /\ ChunksWellFormed']_vars

\* A finished run that emitted at least two chunks.
C8_Witness == pc = "done" /\ Len(chunks) >= 2

\* C9 as stated: when two title blocks share a section_id, some block of the
\* first section and some block of the second receive equal chunk_ids.
C9_Original ==
    \A t1, t2 \in DOMAIN blocks :
        (/\ t1 < t2
         /\ blocks[t1].type = "title"
         /\ blocks[t2].type = "title"
         /\ blocks[t1].section_id = blocks[t2].section_id) =>
            \E k1 \in t1..(t2 - 1), k2 \in t2..Len(blocks) :
                blocks[k1].chunk_id = blocks[k2].chunk_id

\* C9 amended: chunk_id is unique across the whole run, like block_id: the
\* per-section counter is keyed by section_id and carries on when a later title
\* gives the same section_id, so blocks of same-slug sections never collide.
C9_ChunkIdsUnique ==
    \A k1, k2 \in DOMAIN blocks :
        k1 # k2 =>
            /\ blocks[k1].chunk_id # blocks[k2].chunk_id
            /\ blocks[k1].block_id # blocks[k2].block_id

\* Two title blocks with one section_id and a content block of the first
\* section between them, all on one page.
C9_Witness ==
    /\ pc \in {"chunk", "done"}
    /\ Len(blocks) >= 3
    /\ blocks[1].type = "title"
    /\ blocks[2].type # "title"
    /\ blocks[3].type = "title"
    /\ blocks[1].section_id = blocks[3].section_id
    /\ \A k \in DOMAIN blocks : blocks[k].page = blocks[1].page

\* The dict d supplies a corner under one of its two key names with a number
CornerSupplied(d, a, b) ==
    \/ a \in DOMAIN d /\ d[a][1] = "int"
    \/ b \in DOMAIN d /\ d[b][1] = "int"

\* C10 as stated: for a dict bbox the block's bbox is a list exactly when all
\* four corners are supplied under either key name with a number, 0 included.
C10_DictBbox ==
    \A k \in DOMAIN blocks :
        ("bbox" \in DOMAIN elements[k] /\ elements[k].bbox[1] = "dict") =>
            LET d == elements[k].bbox[2]
            IN  (blocks[k].bbox # None)
                    = (/\ CornerSupplied(d, "x1", "left")
                       /\ CornerSupplied(d, "y1", "top")
                       /\ CornerSupplied(d, "x2", "right")
                       /\ CornerSupplied(d, "y2", "bottom"))

=============================================================================
